---- MODULE Spec2Model ----
(***************************************************************************)
(* Length-aware batch scheduling of sequence_models/data.py:               *)
(*   SortishSampler      (the spec's BucketedShuffler)                     *)
(*   ApproxBatchSampler  (the spec's TokenBudgetBatcher)                   *)
(* Dataset indices are 0-based as in the source; a TLA+ sequence holds     *)
(* index i of a Python list at position i + 1.                             *)
(***************************************************************************)
EXTENDS Integers, Sequences, FiniteSets, TLC

\* ---- bounds of the model ----
MaxN == 2          \* dataset sizes 1..MaxN
MaxLen == 3        \* lengths 0..MaxLen of the array an ApproxBatchSampler reads
MaxTokens == 3     \* max_tokens 1..MaxTokens
MaxBatch == 3      \* max_batch 1..MaxBatch
MaxStream == 4     \* an index stream yields 0..MaxStream indices
MaxBucket == 2     \* bucket_size 1..MaxBucket
MaxReplicas == 3   \* num_replicas 1..MaxReplicas
MaxSeqLen == 1     \* lengths 0..MaxSeqLen of the array a SortishSampler sorts
MaxWorld == 2      \* num_replicas 1..MaxWorld when every rank is instantiated
MaxSorted == 3     \* dataset sizes 1..MaxSorted where the sort's ties decide the buckets

VARIABLES
    sequence_lengths,  \* the lengths array handed to SortishSampler
    mt,                \* np.random's stream: mt[seed][k] is the k-th raw draw after seed(seed)
    samplers,          \* the SortishSampler objects (one per process)
    returned,          \* per object: what its last __iter__ call returned or raised
    sample_lengths,    \* ApproxBatchSampler.sample_lengths
    max_tokens,        \* ApproxBatchSampler.max_tokens
    max_batch,         \* ApproxBatchSampler.max_batch
    sampler,           \* ApproxBatchSampler.sampler: the index stream it will yield
    pulled,            \* how many indices the for loop has pulled from sampler
    batch,             \* local of ApproxBatchSampler.__iter__
    length,            \* local of ApproxBatchSampler.__iter__
    yielded,           \* the batches the generator has yielded, in order
    bpc                \* the batcher: "off" | "new" | "ready" | "iter" | "raised" | "done"

shufflerVars == <<sequence_lengths, mt, samplers, returned>>
batcherVars == <<sample_lengths, max_tokens, max_batch, sampler, pulled, batch,
                 length, yielded, bpc>>
vars == <<sequence_lengths, mt, samplers, returned, sample_lengths, max_tokens,
          max_batch, sampler, pulled, batch, length, yielded, bpc>>

\* ---- Python helpers ----
Max(a, b) == IF a >= b THEN a ELSE b

Min(a, b) == IF a <= b THEN a ELSE b

\* math.ceil(n / d) for n >= 0 and d # 0 (true division, then ceil)
CeilDiv(n, d) == IF d > 0 THEN (n + d - 1) \div d ELSE -(n \div (-d))

\* a slice bound as Python clamps it: negative counts from the end
Clamp(b, n) == IF b < 0 THEN Max(b + n, 0) ELSE Min(b, n)

\* s[start:stop:step] for step >= 1
PySlice(s, start, stop, step) ==
    LET n == Len(s)
        lo == Clamp(start, n)
        hi == Clamp(stop, n)
        cnt == IF hi > lo THEN (hi - lo + step - 1) \div step ELSE 0
    IN  [k \in 1..cnt |-> s[lo + (k - 1) * step + 1]]

RECURSIVE Flatten(_)
\* [item for sublist in data for item in sublist]
Flatten(d) == IF d = <<>> THEN <<>> ELSE Head(d) \o Flatten(Tail(d))

\* the shuffler half of the state when only the batcher runs
ShufflerOff ==
    /\ sequence_lengths = <<>>
    /\ mt = <<>>
    /\ samplers = <<>>
    /\ returned = <<>>

\* the batcher half of the state when only the shuffler runs
BatcherOff ==
    /\ sample_lengths = <<>>
    /\ max_tokens = 1
    /\ max_batch = 1
    /\ sampler = <<>>
    /\ pulled = 0
    /\ batch = <<>>
    /\ length = 0
    /\ yielded = <<>>
    /\ bpc = "off"

\* ---- SortishSampler ----

\* the permutations of 0..n-1, as sequences
Perms(n) == {p \in [1..n -> 0..(n - 1)] : \A i, j \in 1..n : p[i] = p[j] => i = j}

\* np.argsort(sequence_lengths): the default kind is not stable, so any order
\* that is ascending in length is a possible result
Argsorts(lens) ==
    {p \in Perms(Len(lens)) :
        \A i, j \in 1..Len(lens) : i < j => lens[p[i] + 1] <= lens[p[j] + 1]}

\* a plausible slip of SortishBuckets: each slice runs one element too far
SortishBucketsOverlap(order, bucket_size) ==
    [i \in 1..Max(CeilDiv(Len(order), bucket_size), 0) |->
        PySlice(order, (i - 1) * bucket_size, (i - 1) * bucket_size + bucket_size + 1, 1)]

\* [data[i * bucket_size: i * bucket_size + bucket_size] for i in range(n_buckets)]
SortishBuckets(order, bucket_size) ==
    [i \in 1..Max(CeilDiv(Len(order), bucket_size), 0) |->
        PySlice(order, (i - 1) * bucket_size, (i - 1) * bucket_size + bucket_size, 1)]

\* SortishSampler.__init__ for bucket_size # 0 and num_replicas # 0: the object
SortishNew(order, bucket_size, num_replicas, rank) ==
    [data |-> SortishBuckets(order, bucket_size),
     num_replicas |-> num_replicas,
     num_samples |-> CeilDiv(Len(order), num_replicas),
     bucket_size |-> bucket_size,
     rank |-> rank,
     epoch |-> 0,
     total_size |-> CeilDiv(Len(order), num_replicas) * num_replicas]

\* no __iter__ call has returned yet
NoReturn == [status |-> "none", indices |-> <<>>, epoch |-> 0]

\* x[i], x[j] = x[j], x[i] on positions a and b
Swap(x, a, b) == [x EXCEPT ![a] = x[b], ![b] = x[a]]

\* the number of draws np.random.shuffle makes on n elements
Draws(n) == Max(n - 1, 0)

RECURSIVE Fisher(_, _, _, _)
\* the loop of np.random.shuffle: for i in reversed(range(1, n)), j is drawn
\* from [0, i] and x[i], x[j] are swapped; k is the index of the next draw
Fisher(x, i, seed, k) ==
    IF i < 1 THEN x
    ELSE Fisher(Swap(x, i + 1, (mt[seed][k] % (i + 1)) + 1), i - 1, seed, k + 1)

\* np.random.shuffle(x), in place, taking the draws k, k+1, ... of the stream
Shuffle(x, seed, k) == Fisher(x, Len(x) - 1, seed, k)

RECURSIVE ShuffleEach(_, _, _)
\* for bucket in self.data: np.random.shuffle(bucket)
ShuffleEach(d, seed, k) ==
    IF d = <<>> THEN <<>>
    ELSE <<Shuffle(Head(d), seed, k)>> \o ShuffleEach(Tail(d), seed, k + Draws(Len(Head(d))))

RECURSIVE DrawsIn(_)
\* the draws the per-bucket shuffles take together
DrawsIn(d) == IF d = <<>> THEN 0 ELSE Draws(Len(Head(d))) + DrawsIn(Tail(d))

\* self.data after np.random.seed(self.epoch) and the two rounds of shuffles
Shuffled(s) == Shuffle(ShuffleEach(s.data, s.epoch, 1), s.epoch, 1 + DrawsIn(s.data))

\* indices after the wraparound pad: indices += indices[:(total_size - len(indices))]
Padded(s) ==
    LET indices == Flatten(Shuffled(s))
    IN  indices \o PySlice(indices, 0, s.total_size - Len(indices), 1)

\* indices[self.rank:self.total_size:self.num_replicas]
Shard(s) == PySlice(Padded(s), s.rank, s.total_size, s.num_replicas)

\* what __iter__ returns or raises, the two asserts included
IterResult(s) ==
    IF Len(Padded(s)) # s.total_size \/ Len(Shard(s)) # s.num_samples
    THEN [status |-> "AssertionError", indices |-> <<>>, epoch |-> s.epoch]
    ELSE [status |-> "ok", indices |-> Shard(s), epoch |-> s.epoch]

\* SortishSampler.__iter__ on object o: the buckets are shuffled in place
\* before either assert is reached
SortishCall(o) ==
    /\ samplers' = [samplers EXCEPT ![o].data = Shuffled(samplers[o])]
    /\ returned' = [returned EXCEPT ![o] = IterResult(samplers[o])]

\* a direct __iter__ call on object o
SortishIter(o) ==
    /\ SortishCall(o)
    /\ UNCHANGED <<sequence_lengths, mt>>
    /\ UNCHANGED batcherVars

\* SortishSampler.set_epoch
SetEpoch(o, e) ==
    /\ samplers' = [samplers EXCEPT ![o].epoch = e]
    /\ UNCHANGED <<sequence_lengths, mt, returned>>
    /\ UNCHANGED batcherVars

\* the epochs the training loop sets
Epochs == {0, 1}

\* np.random's generator: the stream each seed starts is fixed for the run;
\* a dataset of n items takes n - 1 draws per __iter__ call
Streams(n) == [Epochs -> [1..(n - 1) -> 0..(n - 1)]]

\* one process: a sampler of any rank of any world size
ShufflerInit ==
    /\ BatcherOff
    /\ \E n \in 1..MaxN :
        /\ sequence_lengths \in [1..n -> 0..MaxSeqLen]
        /\ mt \in Streams(n)
    /\ \E order \in Argsorts(sequence_lengths), bucket_size \in 1..MaxBucket,
          num_replicas \in 1..MaxReplicas :
            \E rank \in 0..(num_replicas - 1) :
                samplers = <<SortishNew(order, bucket_size, num_replicas, rank)>>
    /\ returned = <<NoReturn>>

ShufflerNext ==
    \E o \in 1..Len(samplers) :
        \/ SortishIter(o)
        \/ \E e \in Epochs : SetEpoch(o, e)

SpecShuffler == ShufflerInit /\ [][ShufflerNext]_vars

\* the processes of one job: one sampler per rank, built from the same arguments
ReplicasInit ==
    /\ BatcherOff
    /\ \E n \in 1..MaxN :
        /\ sequence_lengths \in [1..n -> 0..MaxSeqLen]
        /\ mt \in Streams(n)
    /\ \E order \in Argsorts(sequence_lengths), bucket_size \in 1..MaxBucket,
          num_replicas \in 1..MaxWorld :
            /\ samplers = [r \in 1..num_replicas |->
                              SortishNew(order, bucket_size, num_replicas, r - 1)]
            /\ returned = [r \in 1..num_replicas |-> NoReturn]

SpecReplicas == ReplicasInit /\ [][ShufflerNext]_vars

\* one process over a dataset large enough for tied lengths to straddle a
\* bucket boundary
BucketsInit ==
    /\ BatcherOff
    /\ \E n \in 1..MaxSorted :
        /\ sequence_lengths \in [1..n -> 0..MaxSeqLen]
        /\ mt \in Streams(n)
    /\ \E order \in Argsorts(sequence_lengths), bucket_size \in 1..MaxBucket,
          num_replicas \in 1..MaxWorld :
            \E rank \in 0..(num_replicas - 1) :
                samplers = <<SortishNew(order, bucket_size, num_replicas, rank)>>
    /\ returned = <<NoReturn>>

SpecBuckets == BucketsInit /\ [][ShufflerNext]_vars

\* ---- ApproxBatchSampler ----

\* ApproxBatchSampler.__init__: stores its arguments, validates nothing; the
\* variable sampler holds the indices once iter(self.sampler) has produced them
ApproxNew(mtok, mbatch, lens) ==
    /\ max_tokens' = mtok
    /\ max_batch' = mbatch
    /\ sample_lengths' = lens
    /\ bpc' = "ready"
    /\ UNCHANGED <<sampler, pulled, batch, length, yielded>>

\* a plausible slip of Fits: the candidate index is not counted
FitsUncounted(b, len, this_length, mtok) == Len(b) * Max(len, this_length) <= mtok

\* the condition of the if in the loop body
Fits(b, len, this_length, mtok) == (Len(b) + 1) * Max(len, this_length) <= mtok

\* a plausible slip of IsFull: the batch is cut one append too late
IsFullLate(b, mbatch) == Len(b) = mbatch + 1

\* the condition of the inner if, on the batch after the append
IsFull(b, mbatch) == Len(b) = mbatch

\* one pass of the for loop of __iter__: pull idx, then the if / else
ApproxIterStep ==
    /\ bpc = "iter"
    /\ pulled < Len(sampler)
    /\ LET idx == sampler[pulled + 1]
           this_length == sample_lengths[idx + 1]
       IN  /\ pulled' = pulled + 1
           /\ IF Fits(batch, length, this_length, max_tokens)
              THEN IF IsFull(Append(batch, idx), max_batch)
                   THEN /\ yielded' = Append(yielded, Append(batch, idx))
                        /\ batch' = <<>>
                        /\ length' = 0
                   ELSE /\ batch' = Append(batch, idx)
                        /\ length' = Max(length, this_length)
                        /\ UNCHANGED yielded
              ELSE /\ yielded' = Append(yielded, batch)
                   /\ batch' = <<idx>>
                   /\ length' = this_length
    /\ UNCHANGED <<sample_lengths, max_tokens, max_batch, sampler, bpc>>
    /\ UNCHANGED shufflerVars

\* the sampler is exhausted: the for loop ends and the generator returns
ApproxIterStop ==
    /\ bpc = "iter"
    /\ pulled = Len(sampler)
    /\ bpc' = "done"
    /\ UNCHANGED <<sample_lengths, max_tokens, max_batch, sampler, pulled, batch,
                   length, yielded>>
    /\ UNCHANGED shufflerVars

\* a constructed batcher about to be iterated
BatcherReady(smp, mtok, mbatch, lens) ==
    /\ sampler = smp
    /\ max_tokens = mtok
    /\ max_batch = mbatch
    /\ sample_lengths = lens
    /\ pulled = 0
    /\ batch = <<>>
    /\ length = 0
    /\ yielded = <<>>
    /\ bpc = "iter"

\* Scenario B of the spec
ScenarioLengths == <<2, 3, 10, 1>>

ScenarioStream == <<0, 1, 2, 3>>

BatcherInit ==
    /\ ShufflerOff
    /\ \/ \E n \in 1..MaxN, k \in 0..MaxStream :
            \E lens \in [1..n -> 0..MaxLen], smp \in [1..k -> 0..(n - 1)],
               mtok \in 1..MaxTokens, mbatch \in 1..MaxBatch :
                BatcherReady(smp, mtok, mbatch, lens)
       \/ BatcherReady(ScenarioStream, 6, 3, ScenarioLengths)

BatcherNext == ApproxIterStep \/ ApproxIterStop

SpecBatcher == BatcherInit /\ [][BatcherNext]_vars

\* ---- construction, with arguments of any sign ----

\* nothing is constructed yet
ConfigInit ==
    /\ \E n \in 1..MaxN :
        /\ sequence_lengths \in [1..n -> 0..MaxSeqLen]
        /\ mt \in Streams(n)
    /\ samplers = <<>>
    /\ returned = <<>>
    /\ sample_lengths = <<>>
    /\ max_tokens = 1
    /\ max_batch = 1
    /\ sampler = <<>>
    /\ pulled = 0
    /\ batch = <<>>
    /\ length = 0
    /\ yielded = <<>>
    /\ bpc = "new"

\* SortishSampler(sequence_lengths, bucket_size, num_replicas, rank): only
\* bucket_size = 0 raises (ZeroDivisionError at the n_buckets division)
SortishConstruct ==
    /\ samplers = <<>>
    /\ \E order \in Argsorts(sequence_lengths), bucket_size \in -1..MaxBucket,
          num_replicas \in 1..MaxWorld :
            \E rank \in -1..num_replicas :
                IF bucket_size = 0
                THEN UNCHANGED <<samplers, returned>>
                ELSE /\ samplers' = <<SortishNew(order, bucket_size, num_replicas, rank)>>
                     /\ returned' = <<NoReturn>>
    /\ UNCHANGED <<sequence_lengths, mt>>
    /\ UNCHANGED batcherVars

\* ApproxBatchSampler(sampler, max_tokens, max_batch, sample_lengths) around
\* the constructed SortishSampler
ApproxConstruct ==
    /\ bpc = "new"
    /\ samplers # <<>>
    /\ \E mtok \in -1..MaxTokens, mbatch \in -1..MaxBatch :
            ApproxNew(mtok, mbatch, sequence_lengths)
    /\ UNCHANGED shufflerVars

\* the start of ApproxBatchSampler.__iter__: batch = [], length = 0, and the
\* for statement calls self.sampler.__iter__()
ApproxIterStart ==
    /\ bpc = "ready"
    /\ SortishCall(1)
    /\ batch' = <<>>
    /\ length' = 0
    /\ pulled' = 0
    /\ yielded' = <<>>
    /\ sampler' = IterResult(samplers[1]).indices
    /\ bpc' = IF IterResult(samplers[1]).status = "ok" THEN "iter" ELSE "raised"
    /\ UNCHANGED <<sample_lengths, max_tokens, max_batch, sequence_lengths, mt>>

ConfigNext ==
    \/ SortishConstruct
    \/ ApproxConstruct
    \/ ApproxIterStart
    \/ ApproxIterStep
    \/ ApproxIterStop

SpecConfig == ConfigInit /\ [][ConfigNext]_vars

\* ---- claims about ApproxBatchSampler ----

\* the batches yielded so far
Emitted == {yielded[i] : i \in 1..Len(yielded)}

RECURSIVE LongestIn(_)
\* max(length(i) for i in b), 0 for the empty batch
LongestIn(b) ==
    IF b = <<>> THEN 0 ELSE Max(sample_lengths[Head(b) + 1], LongestIn(Tail(b)))

\* the effective token cost of a batch
Cost(b) == Len(b) * LongestIn(b)

\* C1: when the index source is exhausted and the in-progress batch is
\* non-empty, that batch is emitted as the final batch before iteration ends.
C1_FlushOnExhaustion ==
    [][(bpc = "iter" /\ bpc' = "done" /\ batch # <<>>)
            => yielded' = Append(yielded, batch)]_vars

\* C2: every emitted batch has len(batch) <= max_batch.
C2_BatchSizeBound == \A b \in Emitted : Len(b) <= max_batch

\* C3: every emitted batch is non-empty.
C3_EmittedNonEmpty == \A b \in Emitted : b # <<>>

\* C4: every emitted batch is within the token budget, except a batch of
\* exactly one index whose own length exceeds max_tokens; so every emitted
\* batch of more than one index is within the budget.
C4_TokenBound ==
    \A b \in Emitted :
        /\ Cost(b) <= max_tokens \/ (Len(b) = 1 /\ LongestIn(b) > max_tokens)
        /\ Len(b) > 1 => Cost(b) <= max_tokens

\* C4 witness: a singleton overflow and a batch of several indices with a
\* positive cost have both been emitted.
C4_Witness ==
    /\ \E b \in Emitted : Len(b) = 1 /\ LongestIn(b) > max_tokens
    /\ \E b \in Emitted : Len(b) > 1 /\ Cost(b) > 0

\* C5: once iteration has ended, the concatenation of the emitted batches in
\* emission order equals the input index stream.
C5_Partition == bpc = "done" => Flatten(yielded) = sampler

\* ---- claims about SortishSampler ----

\* the dataset size
N == Len(sequence_lengths)

\* C6: on one object, two __iter__ calls made with the same epoch return the
\* identical index sequence, whatever calls came before: a call that runs
\* under the epoch of the previous call returns what that call returned.
C6_SameEpochSameSequence ==
    [][\A o \in 1..Len(samplers) :
        (/\ returned[o].status = "ok"
         /\ returned'[o].status = "ok"
         /\ returned'[o].epoch = returned[o].epoch)
            => returned'[o].indices = returned[o].indices]_vars

\* C7: for N >= 1, num_replicas >= 1 and rank in [0, num_replicas), __iter__
\* raises no assertion failure and returns exactly ceil(N / num_replicas)
\* indices.
C7_ShardSize ==
    \A o \in 1..Len(samplers) :
        /\ returned[o].status # "AssertionError"
        /\ returned[o].status = "ok" =>
                Len(returned[o].indices) = CeilDiv(N, samplers[o].num_replicas)

\* position q (0-based) of the strided interleaving of the ranks' shards
Interleaved(q) ==
    returned[(q % Len(samplers)) + 1].indices[(q \div Len(samplers)) + 1]

\* C8: with every rank's shard produced under one common epoch, interleaving
\* the shards by stride gives one padded permutation: its first N entries
\* are a permutation P of 0..N-1 and the rest is P[0 : total_size - N].
C8_ShardsInterleave ==
    (/\ \A o \in 1..Len(samplers) : returned[o].status = "ok"
     /\ \A o \in 1..Len(samplers) : returned[o].epoch = returned[1].epoch)
        => /\ [q \in 1..N |-> Interleaved(q - 1)] \in Perms(N)
           /\ \A q \in N..(samplers[1].total_size - 1) :
                Interleaved(q) = Interleaved(q - N)

\* C9: the concatenation of the buckets holds every index of 0..N-1 exactly
\* once, after construction and after any set_epoch and __iter__ calls.
C9_Coverage ==
    \A o \in 1..Len(samplers) : Flatten(samplers[o].data) \in Perms(N)

\* C9 witness: __iter__ has run and left the indices in an order that is no
\* longer ascending in length, over at least two buckets.
C9_Witness ==
    \E o \in 1..Len(samplers) :
        /\ returned[o].status = "ok"
        /\ Len(samplers[o].data) >= 2
        /\ Flatten(samplers[o].data) \notin Argsorts(sequence_lengths)

\* C10: no shuffler exists with bucket_size <= 0 or rank outside
\* [0, num_replicas), and no batcher with max_tokens < 1 or max_batch < 1:
\* construction with such arguments is rejected.
C10_ConfigRejected ==
    /\ \A o \in 1..Len(samplers) :
        /\ samplers[o].bucket_size > 0
        /\ samplers[o].rank >= 0
        /\ samplers[o].rank < samplers[o].num_replicas
    /\ bpc \in {"ready", "iter", "raised", "done"} => (max_tokens >= 1 /\ max_batch >= 1)

\* the stable length-ascending order: ties keep the original index order
StableOrder(lens) ==
    CHOOSE p \in Argsorts(lens) :
        \A i, j \in 1..Len(lens) :
            (i < j /\ lens[p[i] + 1] = lens[p[j] + 1]) => p[i] < p[j]

\* the membership set of a bucket
Members(b) == {b[i] : i \in 1..Len(b)}

\* the buckets of a list of buckets, as a collection of membership sets
BucketSets(d) == {Members(d[i]) : i \in 1..Len(d)}

====
